---- MODULE Spec2Model ----
(***************************************************************************)
(* A model of exceptionservice/server.py: the handler of a POSTed          *)
(* exception report, which searches the tracker for issues with the same   *)
(* summary (paginated, recursive), compares the printed stacktraces, and   *)
(* then either updates the matching issue or creates a new one.            *)
(*                                                                         *)
(* A text is a sequence of one-character strings.  Python's 0-based,       *)
(* half-open indices are kept in the operators translated from difflib:    *)
(* element i of a Python string s is s[i + 1] here.                        *)
(***************************************************************************)
EXTENDS Integers, Sequences, FiniteSets

(***************************************************************************)
(* Characters and the text primitives of Python used by the program.      *)
(***************************************************************************)
LowerLetters ==
  {"a","b","c","d","e","f","g","h","i","j","k","l","m",
   "n","o","p","q","r","s","t","u","v","w","x","y","z"}

UpperLetters ==
  {"A","B","C","D","E","F","G","H","I","J","K","L","M",
   "N","O","P","Q","R","S","T","U","V","W","X","Y","Z"}

DigitChars == {"0","1","2","3","4","5","6","7","8","9"}

\* str.lower() on one character.
LowerChar(c) ==
  CASE c = "A" -> "a" [] c = "B" -> "b" [] c = "C" -> "c" [] c = "D" -> "d"
    [] c = "E" -> "e" [] c = "F" -> "f" [] c = "G" -> "g" [] c = "H" -> "h"
    [] c = "I" -> "i" [] c = "J" -> "j" [] c = "K" -> "k" [] c = "L" -> "l"
    [] c = "M" -> "m" [] c = "N" -> "n" [] c = "O" -> "o" [] c = "P" -> "p"
    [] c = "Q" -> "q" [] c = "R" -> "r" [] c = "S" -> "s" [] c = "T" -> "t"
    [] c = "U" -> "u" [] c = "V" -> "v" [] c = "W" -> "w" [] c = "X" -> "x"
    [] c = "Y" -> "y" [] c = "Z" -> "z" [] OTHER -> c

\* str.lower().
Lower(s) == [i \in 1..Len(s) |-> LowerChar(s[i])]

\* The regular expression classes \w, \s and \d over the model's characters.
IsWordChar(c) == c \in LowerLetters \cup UpperLetters \cup DigitChars \cup {"_"}

IsSpaceChar(c) == c \in {" ", "\t", "\n"}

IsDigitChar(c) == c \in DigitChars

\* s[from:] of Python, from 0-based.
Tail0(s, from) == SubSeq(s, from + 1, Len(s))

\* Whether the literal lit occurs in s at 0-based position pos.
HasAt(s, lit, pos) ==
  /\ pos + Len(lit) <= Len(s)
  /\ \A k \in 1..Len(lit) : s[pos + k] = lit[k]

\* str.find(lit): the 0-based position of the first occurrence, -1 when none.
Find(s, lit) ==
  IF \E p \in 0..Len(s) : HasAt(s, lit, p)
  THEN CHOOSE p \in 0..Len(s) :
         /\ HasAt(s, lit, p)
         /\ \A q \in 0..(p - 1) : ~HasAt(s, lit, q)
  ELSE -1

\* str.split(sep) for a non-empty separator.
RECURSIVE Split(_, _)
Split(s, sep) ==
  LET p == Find(s, sep)
  IN  IF p = -1 THEN <<s>>
      ELSE <<SubSeq(s, 1, p)>> \o Split(Tail0(s, p + Len(sep)), sep)

\* str.splitlines(): the lines without their line breaks, and no empty last
\* line after a final line break.
RECURSIVE splitlines(_)
splitlines(s) ==
  IF s = <<>> THEN <<>>
  ELSE LET p == Find(s, <<"\n">>)
       IN  IF p = -1 THEN <<s>>
           ELSE <<SubSeq(s, 1, p)>> \o splitlines(Tail0(s, p + 1))

\* str.partition(':')[0]: the text before the first colon, all of it when
\* it has none.
BeforeColon(s) ==
  LET p == Find(s, <<":">>)
  IN  IF p = -1 THEN s ELSE SubSeq(s, 1, p)

\* The length of the longest run of characters satisfying the class, from
\* 0-based position pos on: what a greedy \W*, \s+ or \d+ consumes.
RECURSIVE RunOfNonWord(_, _)
RunOfNonWord(s, pos) ==
  IF pos < Len(s) /\ ~IsWordChar(s[pos + 1])
  THEN 1 + RunOfNonWord(s, pos + 1) ELSE 0

RECURSIVE RunOfSpace(_, _)
RunOfSpace(s, pos) ==
  IF pos < Len(s) /\ IsSpaceChar(s[pos + 1])
  THEN 1 + RunOfSpace(s, pos + 1) ELSE 0

RECURSIVE RunOfDigits(_, _)
RunOfDigits(s, pos) ==
  IF pos < Len(s) /\ IsDigitChar(s[pos + 1])
  THEN 1 + RunOfDigits(s, pos + 1) ELSE 0

\* int() of a text of decimal digits, and '{}'.format() of a natural.
DigitValue(c) ==
  CASE c = "0" -> 0 [] c = "1" -> 1 [] c = "2" -> 2 [] c = "3" -> 3
    [] c = "4" -> 4 [] c = "5" -> 5 [] c = "6" -> 6 [] c = "7" -> 7
    [] c = "8" -> 8 [] c = "9" -> 9

DigitOf(d) ==
  CASE d = 0 -> "0" [] d = 1 -> "1" [] d = 2 -> "2" [] d = 3 -> "3"
    [] d = 4 -> "4" [] d = 5 -> "5" [] d = 6 -> "6" [] d = 7 -> "7"
    [] d = 8 -> "8" [] d = 9 -> "9"

RECURSIVE ParseInt(_)
ParseInt(s) ==
  IF s = <<>> THEN 0
  ELSE 10 * ParseInt(SubSeq(s, 1, Len(s) - 1)) + DigitValue(s[Len(s)])

RECURSIVE FormatInt(_)
FormatInt(n) ==
  IF n < 10 THEN <<DigitOf(n)>>
  ELSE FormatInt(n \div 10) \o <<DigitOf(n % 10)>>

(***************************************************************************)
(* REGEX_CAUSED_BY = re.compile(r'\W*caused\W+by', re.IGNORECASE), used    *)
(* with match(): anchored at the start of the line.  'c' and 'b' are word  *)
(* characters, so each \W run has to take the whole run of non-word        *)
(* characters before them.                                                 *)
(***************************************************************************)
REGEX_CAUSED_BY_match(line) ==
  LET low == Lower(line)
      p   == RunOfNonWord(line, 0)
      q   == RunOfNonWord(line, p + 6)
  IN  /\ HasAt(low, <<"c","a","u","s","e","d">>, p)
      /\ q >= 1
      /\ HasAt(low, <<"b","y">>, p + 6 + q)

(***************************************************************************)
(* REGEX_COUNT = re.compile(r'.*count:\s+(\d+)', re.IGNORECASE), used with *)
(* match().  '.' does not match a line break, so "count:" starts in the    *)
(* first line; '.*' is greedy, so the last position that lets the rest     *)
(* match is taken.  The value is group 1, <<>> standing for no match.      *)
(***************************************************************************)
CountMatchesAt(s, p) ==
  /\ \A k \in 1..p : s[k] # "\n"
  /\ HasAt(Lower(s), <<"c","o","u","n","t",":">>, p)
  /\ RunOfSpace(s, p + 6) >= 1
  /\ RunOfDigits(s, p + 6 + RunOfSpace(s, p + 6)) >= 1

REGEX_COUNT_match(s) ==
  IF \E p \in 0..Len(s) : CountMatchesAt(s, p)
  THEN LET p == CHOOSE p \in 0..Len(s) :
                  /\ CountMatchesAt(s, p)
                  /\ \A q \in (p + 1)..Len(s) : ~CountMatchesAt(s, q)
           d == p + 6 + RunOfSpace(s, p + 6)
       IN  SubSeq(s, d + 1, d + RunOfDigits(s, d))
  ELSE <<>>

(***************************************************************************)
(* Python values: None, and the outcome of a call that may raise.          *)
(***************************************************************************)
\* None, where a text may be absent (a text holds one-character strings).
None == <<"None">>

Returned(v) == [exc |-> "", val |-> v]

Raised(e) == [exc |-> e, val |-> <<>>]

(***************************************************************************)
(* difflib.SequenceMatcher(isjunk, a, b), as the program uses it           *)
(* (server.py lines 104 to 108).  Indices are Python's.                    *)
(***************************************************************************)
\* The isjunk argument: lambda x: x == ' ' or x == '\n' or x == '\t'.
isjunk(c) == c = " " \/ c = "\n" \/ c = "\t"

\* The number of occurrences of c in b.
RECURSIVE CountOf(_, _)
CountOf(b, c) ==
  IF b = <<>> THEN 0
  ELSE (IF b[1] = c THEN 1 ELSE 0) + CountOf(Tail(b), c)

\* __chain_b: the elements of b left out of b2j, the junk ones and, with
\* autojunk for a b of 200 elements or more, the popular ones.
NotIndexed(b) ==
  {b[k] : k \in {k \in 1..Len(b) : isjunk(b[k])}}
    \cup (IF Len(b) >= 200
          THEN {b[k] : k \in {k \in 1..Len(b) :
                                 CountOf(b, b[k]) > Len(b) \div 100 + 1}}
          ELSE {})

\* The length of the block of equal elements starting at a[i], b[j] inside
\* a[i:ahi], b[j:bhi] whose elements are all indexed in b2j (the k of
\* find_longest_match's j2len, seen from the block's start).
RECURSIVE BlockLen(_, _, _, _, _, _, _)
BlockLen(a, b, skip, i, j, ahi, bhi) ==
  IF i < ahi /\ j < bhi /\ a[i + 1] = b[j + 1] /\ b[j + 1] \notin skip
  THEN 1 + BlockLen(a, b, skip, i + 1, j + 1, ahi, bhi)
  ELSE 0

\* The four extension loops of find_longest_match: how far the block grows
\* to the left and to the right over equal elements that are junk in b
\* (junk = TRUE) or are not (junk = FALSE).
RECURSIVE GrowLeft(_, _, _, _, _, _, _)
GrowLeft(a, b, i, j, alo, blo, junk) ==
  IF i > alo /\ j > blo /\ isjunk(b[j]) = junk /\ a[i] = b[j]
  THEN 1 + GrowLeft(a, b, i - 1, j - 1, alo, blo, junk)
  ELSE 0

RECURSIVE GrowRight(_, _, _, _, _, _, _)
GrowRight(a, b, i, j, ahi, bhi, junk) ==
  IF i < ahi /\ j < bhi /\ isjunk(b[j + 1]) = junk /\ a[i + 1] = b[j + 1]
  THEN 1 + GrowRight(a, b, i + 1, j + 1, ahi, bhi, junk)
  ELSE 0

\* find_longest_match's scan over a[alo:ahi] and b[blo:bhi]: the longest
\* block of indexed elements, the one starting earliest in a and then
\* earliest in b (the scan over i and then j keeps the first block that
\* reaches the best size), and (alo, blo, 0) when there is none.
BlockLensSkipping(a, b, skip, alo, ahi, blo, bhi) ==
  [c \in (alo..(ahi - 1)) \X (blo..(bhi - 1)) |->
     BlockLen(a, b, skip, c[1], c[2], ahi, bhi)]

BlockLens(a, b, alo, ahi, blo, bhi) ==
  BlockLensSkipping(a, b, NotIndexed(b), alo, ahi, blo, bhi)

BestSize(len) ==
  IF DOMAIN len = {} THEN 0
  ELSE CHOOSE k \in {len[c] : c \in DOMAIN len} :
         \A c \in DOMAIN len : len[c] <= k

FirstOfSize(len, size) ==
  CHOOSE c \in DOMAIN len :
    /\ len[c] = size
    /\ \A d \in DOMAIN len :
         len[d] = size => c[1] < d[1] \/ (c[1] = d[1] /\ c[2] <= d[2])

BlockOfSize(len, size, alo, blo) ==
  IF size = 0 THEN [i |-> alo, j |-> blo, size |-> 0]
  ELSE [i |-> FirstOfSize(len, size)[1], j |-> FirstOfSize(len, size)[2],
        size |-> size]

BestBlock(len, alo, blo) == BlockOfSize(len, BestSize(len), alo, blo)

\* The block m longer by n elements at its left end.
Leftwards(m, n) == [i |-> m.i - n, j |-> m.j - n, size |-> m.size + n]

GrownLeft(a, b, alo, blo, m, junk) ==
  Leftwards(m, GrowLeft(a, b, m.i, m.j, alo, blo, junk))

GrownRight(a, b, ahi, bhi, m, junk) ==
  [m EXCEPT !.size = @ + GrowRight(a, b, m.i + m.size, m.j + m.size,
                                   ahi, bhi, junk)]

\* find_longest_match(alo, ahi, blo, bhi): the best block, grown over
\* non-junk and then over junk elements, to the left and then to the right.
find_longest_match(a, b, alo, ahi, blo, bhi) ==
  GrownRight(a, b, ahi, bhi,
    GrownLeft(a, b, alo, blo,
      GrownRight(a, b, ahi, bhi,
        GrownLeft(a, b, alo, blo,
          BestBlock(BlockLens(a, b, alo, ahi, blo, bhi), alo, blo),
          FALSE),
        FALSE),
      TRUE),
    TRUE)

\* get_matching_blocks, summed: the size of the window's longest block m and
\* of the blocks found to its left and to its right.
RECURSIVE MatchedIn(_, _, _, _, _, _)
MatchedAround(a, b, alo, ahi, blo, bhi, m) ==
  IF m.size = 0 THEN 0
  ELSE m.size
       + (IF alo < m.i /\ blo < m.j
          THEN MatchedIn(a, b, alo, m.i, blo, m.j) ELSE 0)
       + (IF m.i + m.size < ahi /\ m.j + m.size < bhi
          THEN MatchedIn(a, b, m.i + m.size, ahi, m.j + m.size, bhi)
          ELSE 0)

MatchedIn(a, b, alo, ahi, blo, bhi) ==
  MatchedAround(a, b, alo, ahi, blo, bhi,
                find_longest_match(a, b, alo, ahi, blo, bhi))

\* _calculate_ratio(matches, length): 2.0 * matches / length, and 1.0 for a
\* length of 0, kept as a fraction.
calculate_ratio(matches, length) ==
  IF length = 0 THEN [num |-> 1, den |-> 1]
  ELSE [num |-> 2 * matches, den |-> length]

\* SequenceMatcher.ratio().
ratio(a, b) ==
  calculate_ratio(MatchedIn(a, b, 0, Len(a), 0, Len(b)), Len(a) + Len(b))

\* SequenceMatcher.real_quick_ratio().
real_quick_ratio(a, b) ==
  calculate_ratio(IF Len(a) < Len(b) THEN Len(a) ELSE Len(b), Len(a) + Len(b))

\* r > n / d for a fraction r and the decimal literal n / d.
Exceeds(r, n, d) == r.num * d > n * r.den

(***************************************************************************)
(* The functions of server.py that touch no collaborator.                  *)
(***************************************************************************)
\* is_issue_closed with "or 'resolved'" in place of the second comparison:
\* a non-empty text, true for every status.
is_issue_closed_or_literal(status) ==
  \/ Lower(status) = <<"c","l","o","s","e","d">>
  \/ <<"r","e","s","o","l","v","e","d">> # <<>>

\* is_issue_closed(status).
is_issue_closed(status) ==
  \/ Lower(status) = <<"c","l","o","s","e","d">>
  \/ Lower(status) = <<"r","e","s","o","l","v","e","d">>

\* occurrence_count keeping the count it finds.
occurrence_count_kept(existing_count) ==
  IF existing_count # None /\ Len(existing_count) > 0
       /\ REGEX_COUNT_match(existing_count) # <<>>
  THEN ParseInt(REGEX_COUNT_match(existing_count))
  ELSE 1

\* The local count of calculate_issue_occurrence_count(existing_count).
occurrence_count(existing_count) ==
  IF existing_count # None /\ Len(existing_count) > 0
       /\ REGEX_COUNT_match(existing_count) # <<>>
  THEN ParseInt(REGEX_COUNT_match(existing_count)) + 1
  ELSE 1

\* calculate_issue_occurrence_count(existing_count), with the text now of
\* datetime.now(): 'Count: {}\nLast: {}'.format(count, datetime.now()).
calculate_issue_occurrence_count(existing_count, now) ==
  <<"C","o","u","n","t",":"," ">> \o FormatInt(occurrence_count(existing_count))
    \o <<"\n","L","a","s","t",":"," ">> \o now

\* The literal '{noformat}'.
NoFormat == <<"{","n","o","f","o","r","m","a","t","}">>

\* get_stacktrace_from_issue(issue).
get_stacktrace_from_issue(issue) ==
  LET description_blocks == Split(issue.fields.description, NoFormat)
  IN  IF Len(description_blocks) >= 3 THEN description_blocks[2] ELSE <<>>

\* The index (from 1) of the last line that matches REGEX_CAUSED_BY, 0 when
\* none does: loc_last_causedby_line + 1.
LastCausedBy(lines) ==
  IF \E i \in 1..Len(lines) : REGEX_CAUSED_BY_match(lines[i])
  THEN CHOOSE i \in 1..Len(lines) :
         /\ REGEX_CAUSED_BY_match(lines[i])
         /\ \A k \in (i + 1)..Len(lines) : ~REGEX_CAUSED_BY_match(lines[k])
  ELSE 0

\* first_line_caused_by_from_printed_stacktrace(printed_stacktrace):
\* lines[loc_last_causedby_line + 1] raises IndexError past the last line.
LineAfter(lines, last) ==
  IF last + 1 > Len(lines) THEN Raised("IndexError")
  ELSE Returned(BeforeColon(lines[last + 1]))

LineAfterLastCausedBy(lines) == LineAfter(lines, LastCausedBy(lines))

first_line_caused_by_from_printed_stacktrace(printed_stacktrace) ==
  LineAfterLastCausedBy(splitlines(printed_stacktrace))

\* matches_exception_throw_location(new_stacktrace, issue_stacktrace): the
\* comparison of the two lines, once both calls have returned.
SameLine(line_new_stacktrace, line_issue_stacktrace) ==
  IF line_new_stacktrace.exc # "" THEN Raised(line_new_stacktrace.exc)
  ELSE IF line_issue_stacktrace.exc # ""
       THEN Raised(line_issue_stacktrace.exc)
       ELSE Returned(line_new_stacktrace.val = line_issue_stacktrace.val)

matches_exception_throw_location(new_stacktrace, issue_stacktrace) ==
  SameLine(first_line_caused_by_from_printed_stacktrace(new_stacktrace),
           first_line_caused_by_from_printed_stacktrace(issue_stacktrace))

\* match_ratio of determine_if_duplicate:
\* s.ratio() if s.real_quick_ratio() > 0.6 else 0.
match_ratio(new_stacktrace, issue_stacktrace) ==
  IF Exceeds(real_quick_ratio(new_stacktrace, issue_stacktrace), 6, 10)
  THEN ratio(new_stacktrace, issue_stacktrace)
  ELSE [num |-> 0, den |-> 1]

\* The condition of determine_if_duplicate's loop body: match_ratio > 0.95
\* and matches_exception_throw_location(...), the second operand evaluated
\* only when the first is true.
is_match(new_stacktrace, issue_stacktrace) ==
  IF Exceeds(match_ratio(new_stacktrace, issue_stacktrace), 95, 100)
  THEN matches_exception_throw_location(new_stacktrace, issue_stacktrace)
  ELSE Returned(FALSE)

\* get_summary_from_message(json_data).
get_summary_from_message(json_data) ==
  LET stacks == json_data.stacktrace
  IN  stacks[Len(stacks)].message

\* The lines get_stacktrace_from_message writes for one trace's stacktrace.
RECURSIVE PrintedLines(_)
PrintedLines(stacktrace) ==
  IF stacktrace = <<>> THEN <<>>
  ELSE LET line == stacktrace[1]
       IN  (IF line.nativeMethod THEN <<>>
            ELSE <<"\t","a","t"," ">> \o line.className \o <<".">>
                   \o line.methodName \o <<"(">> \o line.fileName \o <<":">>
                   \o FormatInt(line.lineNumber) \o <<")","\n">>)
             \o PrintedLines(Tail(stacktrace))

\* get_stacktrace_from_message(json_data), over the traces given.
RECURSIVE PrintedTraces(_)
PrintedTraces(traces) ==
  IF traces = <<>> THEN <<>>
  ELSE <<"C","a","u","s","e","d"," ","b","y",":"," ">> \o traces[1].message
         \o <<"\n">> \o PrintedLines(traces[1].stacktrace)
         \o PrintedTraces(Tail(traces))

get_stacktrace_from_message(json_data) == PrintedTraces(json_data.stacktrace)

\* create_details_string_from_json(json_data): one line per key other than
\* 'stacktrace'; the reports of the model hold no other key.
create_details_string_from_json(json_data) == <<>>

\* The description add_to_jira(summary, details, stacktrace) builds.
description_of(summary, details, stacktrace) ==
  summary \o <<"\n","\n","D","e","t","a","i","l","s",":","\n">> \o details
    \o <<"\n","\n","S","t","a","c","k","t","r","a","c","e",":","\n">>
    \o NoFormat \o stacktrace \o NoFormat

(***************************************************************************)
(* Bounds of the model, and the inputs drawn within them.                  *)
(***************************************************************************)
\* The most issues the tracker holds for a summary.
MaxTotal == 3

\* The tracker's largest page size.
MaxPage == 2

\* From this many requests at one offset on, the requests are not told apart.
Many == 2

\* Reports: JSON objects with a 'stacktrace' list of traces.
StackLine(className, lineNumber, nativeMethod) ==
  [className |-> className, methodName |-> <<"m">>, fileName |-> <<"f">>,
   lineNumber |-> lineNumber, nativeMethod |-> nativeMethod]

Trace(message, stacktrace) == [message |-> message, stacktrace |-> stacktrace]

\* One trace, thrown at c.m(f:1).
ReportAtC ==
  [stacktrace |-> <<Trace(<<"m">>, <<StackLine(<<"c">>, 1, FALSE)>>)>>]

\* One trace whose only stack line is a native method: none is printed.
ReportNativeOnly ==
  [stacktrace |-> <<Trace(<<"m">>, <<StackLine(<<"c">>, 1, TRUE)>>)>>]

\* A wrapping trace and its cause, thrown at c.m(f:1) below a native line.
ReportWrapped ==
  [stacktrace |->
     <<Trace(<<"o">>, <<StackLine(<<"b">>, 2, FALSE)>>),
       Trace(<<"m">>, <<StackLine(<<"n">>, 7, TRUE),
                        StackLine(<<"c">>, 1, FALSE)>>)>>]

\* The reports POSTed in the model.
Reports == {ReportAtC, ReportNativeOnly}

\* An issue as the search returns it (the fields the program reads).
Issue(key, status, environment, description) ==
  [key |-> key,
   fields |-> [status |-> [name |-> status], environment |-> environment,
               description |-> description]]

\* The description of an issue this program created for a report.
CreatedFor(json_data) ==
  description_of(get_summary_from_message(json_data),
                 create_details_string_from_json(json_data),
                 get_stacktrace_from_message(json_data))

\* The issues a tracker may hold under the summary "m": created for the
\* reports above and for near misses of them, or edited by hand.
IssuePool ==
  << Issue("HAM-1", <<"C","l","o","s","e","d">>, None,
           CreatedFor([stacktrace |->
             <<Trace(<<"m">>, <<StackLine(<<"d">>, 1, FALSE)>>)>>])),
     Issue("HAM-2", <<"C","l","o","s","e","d">>,
           <<"C","o","u","n","t",":"," ","4","\n","L","a","s","t",":"," ",
             "2","0","2","3","-","0","1","-","0","1">>,
           CreatedFor(ReportAtC)),
     Issue("HAM-3", <<"O","p","e","n">>, <<>>,
           CreatedFor([stacktrace |->
             <<Trace(<<"m">>, <<StackLine(<<"c">>, 2, FALSE)>>)>>])),
     Issue("HAM-4", <<"R","e","o","p","e","n","e","d">>, None,
           CreatedFor(ReportNativeOnly)),
     Issue("HAM-5", <<"I","n"," ","P","r","o","g","r","e","s","s">>,
           <<"s","e","e","n"," ","t","w","i","c","e">>,
           <<"m",":"," ","n","o"," ","t","r","a","c","e">>),
     Issue("HAM-6", <<"O","p","e","n">>, None,
           CreatedFor([stacktrace |->
             <<Trace(<<"m">>, <<StackLine(<<"c">>, 1, FALSE),
                                StackLine(<<"e">>, 3, FALSE)>>)>>])),
     Issue("HAM-7", <<"R","E","S","O","L","V","E","D">>, None,
           CreatedFor([stacktrace |->
             <<Trace(<<"m">>, <<StackLine(<<"c">>, 3, FALSE)>>)>>])) >>

\* The pool from its element r + 1 on, wrapped around.
Rotated(r) ==
  [i \in 1..Len(IssuePool) |-> IssuePool[((i - 1 + r) % Len(IssuePool)) + 1]]

\* The issues of one tracker: up to MaxTotal consecutive issues of the pool.
Stores ==
  {SubSeq(Rotated(r), 1, n) :
     r \in 0..(Len(IssuePool) - 1), n \in 0..(IF MaxTotal < Len(IssuePool)
                                             THEN MaxTotal
                                             ELSE Len(IssuePool))}

\* The texts str(datetime.now()) yields at the calls of the model.
Timestamps ==
  { <<"2","0","2","3","-","0","1","-","0","1"," ","1","0",":","0","0",":",
      "0","0",".","0","0","0","0","0","1">>,
    <<"2","0","2","4","-","1","2","-","3","1"," ","2","3",":","5","9",":",
      "5","9",".","9","9","9","9","9","9">> }

\* What the tracker answers a call with.  A search declares the tracker's
\* page size and total or, inconsistently, a page size of 0 (with an empty
\* page) or a total grown by one.
SearchStatuses == {200, 500}

CreateStatuses == {201, 400}

UpdateStatuses == {204, 404}

TransitionStatuses == {204, 400}

(***************************************************************************)
(* The state.                                                              *)
(***************************************************************************)
VARIABLES
  json_data,     \* the report POSTed
  store,         \* the tracker's issues matching the report's summary
  page_size,     \* the tracker's page size
  pc,            \* where the handler is
  start_at,      \* find_existing_jira_issues: the offset requested next
  issue_list,    \* the issues fetched so far in the order they are returned
                 \* in, and then the list determine_if_duplicate scans
  next_issue,    \* determine_if_duplicate: the index of the issue compared next
  is_duplicate,  \* determine_if_duplicate's result, <<>> before it returns
  environment,   \* the text sent by update_to_jira
  response,      \* the answer of receive_exception
  requested,     \* per offset, the search requests made (up to Many)
  consistent,    \* every search answer so far was 200 with the tracker's
                 \* own page size and total
  failed,        \* the first tracker call answered with a failure status
  examined,      \* the indices of issue_list compared so far
  writes,        \* the create, update and transition calls made, in order
  fn_input,      \* a function checked alone: its argument
  fn_output,     \*   its latest result
  fn_trace       \*   the values it computed, in order

request_vars ==
  <<json_data, store, page_size, pc, start_at, issue_list, next_issue,
    is_duplicate, environment, response, requested, consistent, failed,
    examined, writes>>

fn_vars == <<fn_input, fn_output, fn_trace>>

vars == <<request_vars, fn_vars>>

NoResponse == [code |-> 0, body |-> "", key |-> "", resp_code |-> 0]

NoFailure == [op |-> "", status_code |-> 0]

\* The start of a request for a report and a tracker.
InitRequest ==
  /\ json_data \in Reports
  /\ store \in Stores
  /\ page_size \in 1..MaxPage
  /\ pc = "search"
  /\ start_at = 0
  /\ issue_list = <<>>
  /\ next_issue = 1
  /\ is_duplicate = <<>>
  /\ environment = None
  /\ response = NoResponse
  /\ requested = [o \in 0..MaxTotal |-> 0]
  /\ consistent = TRUE
  /\ failed = NoFailure
  /\ examined = {}
  /\ writes = <<>>

Init ==
  /\ InitRequest
  /\ fn_input = <<>>
  /\ fn_output = <<>>
  /\ fn_trace = <<>>

(***************************************************************************)
(* The tracker's search, as the program sees it.                           *)
(***************************************************************************)
\* The 'issues' of the answer to a search at offset startAt that declares
\* maxResults: that many of the store's issues from the offset on.
Page(startAt, maxResults) ==
  SubSeq(store, startAt + 1,
         IF startAt + maxResults < Len(store)
         THEN startAt + maxResults ELSE Len(store))

\* One more request at an offset.
Counted(offset) ==
  [requested EXCEPT ![offset] = IF @ < Many THEN @ + 1 ELSE Many]

(***************************************************************************)
(* receive_exception: what the handler answers.                            *)
(***************************************************************************)
\* The except clause: an InternalError becomes a 500 with its message.
ErrorResponse(message, resp_code) ==
  [code |-> 500, body |-> message, key |-> "", resp_code |-> resp_code]

\* Any other exception is not caught by the handler: the framework's 500.
UnhandledResponse(exc) ==
  [code |-> 500, body |-> exc, key |-> "", resp_code |-> 0]

(***************************************************************************)
(* find_existing_jira_issues(exception_summary, start_at): one request.    *)
(* The call for the next page is made before this page's issues are        *)
(* appended, so the issues fetched so far are, in the order of the final   *)
(* result, the page just fetched followed by the pages fetched before it.  *)
(***************************************************************************)
\* more_pages with >= for >.
more_pages_or_equal(total_results, offset, max_results) ==
  total_results >= offset + max_results

\* The condition under which the next page is fetched.
more_pages(total_results, offset, max_results) ==
  total_results > offset + max_results

\* SearchFailed taking the failed page for the last one.
SearchFailedKeepingPages(status_code) ==
  /\ pc' = "scan"
  /\ failed' = [op |-> "search", status_code |-> status_code]
  /\ UNCHANGED <<start_at, issue_list, response>>

\* resp.status_code != 200: InternalError is raised through every pending
\* call and through determine_if_duplicate and add_jira_exception.
SearchFailed(status_code) ==
  /\ pc' = "done"
  /\ response' = ErrorResponse("Could not query Jira issues", status_code)
  /\ issue_list' = <<>>
  /\ failed' = [op |-> "search", status_code |-> status_code]
  /\ UNCHANGED start_at

\* A 200: the page is kept and the next one is fetched, or the list returns.
SearchAnswered(max_results, total_results) ==
  /\ issue_list' = Page(start_at, max_results) \o issue_list
  /\ IF more_pages(total_results, start_at, max_results)
     THEN pc' = "search" /\ start_at' = start_at + max_results
     ELSE pc' = "scan" /\ UNCHANGED start_at
  /\ UNCHANGED <<response, failed>>

\* requests.post(_JIRA_URI_SEARCH, ...) with startAt = start_at: the request
\* is sent.
SearchRequest ==
  /\ pc = "search"
  /\ pc' = "searching"
  /\ requested' = Counted(start_at)
  /\ UNCHANGED <<json_data, store, page_size, start_at, issue_list, next_issue,
                 is_duplicate, environment, response, consistent, failed,
                 examined, writes, fn_vars>>

\* The tracker's answer, and what the function does with it.
SearchResponse ==
  /\ pc = "searching"
  /\ \E status_code \in SearchStatuses, max_results \in {0, page_size},
        total_results \in {Len(store), Len(store) + 1} :
       /\ consistent' = (/\ consistent
                         /\ status_code = 200
                         /\ max_results = page_size
                         /\ total_results = Len(store))
       /\ IF status_code # 200
          THEN SearchFailed(status_code)
          ELSE SearchAnswered(max_results, total_results)
  /\ UNCHANGED <<json_data, store, page_size, next_issue, is_duplicate,
                 environment, requested, examined, writes, fn_vars>>

(***************************************************************************)
(* determine_if_duplicate(json_data): one turn of the loop over            *)
(* issue_list, or its end.                                                 *)
(***************************************************************************)
\* The tuple returned for a matching issue.
Duplicate(issue) ==
  <<TRUE, issue.key, issue.fields.status.name, issue.fields.environment>>

\* The tuple returned when the loop ends.
New == <<FALSE, "">>

\* The loop's body for the issue at next_issue, m being the outcome of its
\* condition: an exception leaves the handler, a match returns, and
\* otherwise the loop goes on.
Compared(issue, m) ==
  /\ examined' = examined \cup {next_issue}
  /\ IF m.exc # ""
     THEN /\ pc' = "done"
          /\ response' = UnhandledResponse(m.exc)
          /\ UNCHANGED <<next_issue, is_duplicate>>
     ELSE IF m.val
          THEN /\ is_duplicate' = Duplicate(issue)
               /\ pc' = "update"
               /\ UNCHANGED <<next_issue, response>>
          ELSE /\ next_issue' = next_issue + 1
               /\ UNCHANGED <<pc, is_duplicate, response>>

Scan ==
  /\ pc = "scan"
  /\ IF next_issue > Len(issue_list)
     THEN /\ is_duplicate' = New
          /\ pc' = "create"
          /\ UNCHANGED <<next_issue, examined, response>>
     ELSE Compared(issue_list[next_issue],
                   is_match(get_stacktrace_from_message(json_data),
                            get_stacktrace_from_issue(issue_list[next_issue])))
  /\ UNCHANGED <<json_data, store, page_size, start_at, issue_list,
                 environment, requested, consistent, failed, fn_vars, writes>>

(***************************************************************************)
(* add_jira_exception's two branches: update_to_jira (the PUT, then the    *)
(* transition POST) and add_to_jira.                                       *)
(***************************************************************************)
Written(op, key, status_code) ==
  Append(writes, [op |-> op, key |-> key, status_code |-> status_code])

\* update_to_jira(issue_id, environment, do_status_transition) up to the
\* check of the PUT's status.
Update ==
  /\ pc = "update"
  /\ \E status_code \in UpdateStatuses, now \in Timestamps :
       /\ environment' = calculate_issue_occurrence_count(is_duplicate[4], now)
       /\ writes' = Written("update", is_duplicate[2], status_code)
       /\ IF status_code # 204
          THEN /\ pc' = "done"
               /\ response' = ErrorResponse("Could not update existing Jira issue",
                                            status_code)
               /\ failed' = [op |-> "update", status_code |-> status_code]
          ELSE IF is_issue_closed(is_duplicate[3])
               THEN /\ pc' = "transition"
                    /\ UNCHANGED <<response, failed>>
               ELSE /\ pc' = "done"
                    /\ response' = [code |-> 200,
                                    body |-> "Jira issue already exists, updated",
                                    key |-> is_duplicate[2], resp_code |-> 0]
                    /\ UNCHANGED failed
  /\ UNCHANGED <<json_data, store, page_size, start_at, issue_list, next_issue,
                 is_duplicate, requested, consistent, examined, fn_vars>>

\* update_to_jira's transition POST: its answer is logged and not checked.
Transition ==
  /\ pc = "transition"
  /\ \E status_code \in TransitionStatuses :
       /\ writes' = Written("transition", is_duplicate[2], status_code)
       /\ failed' = IF status_code # 204
                    THEN [op |-> "transition", status_code |-> status_code]
                    ELSE failed
  /\ pc' = "done"
  /\ response' = [code |-> 200, body |-> "Jira issue already exists, updated",
                  key |-> is_duplicate[2], resp_code |-> 0]
  /\ UNCHANGED <<json_data, store, page_size, start_at, issue_list, next_issue,
                 is_duplicate, environment, requested, consistent, examined,
                 fn_vars>>

\* add_to_jira(summary, details, stacktrace); the tracker names the new
\* issue in its answer.
Create ==
  /\ pc = "create"
  /\ \E status_code \in CreateStatuses :
       /\ writes' = Written("create", "", status_code)
       /\ IF status_code # 201
          THEN /\ response' = ErrorResponse("Could not create new Jira issue",
                                            status_code)
               /\ failed' = [op |-> "create", status_code |-> status_code]
          ELSE /\ response' = [code |-> 201, body |-> "Jira issue added",
                               key |-> "HAM-NEW", resp_code |-> 0]
               /\ UNCHANGED failed
  /\ pc' = "done"
  /\ UNCHANGED <<json_data, store, page_size, start_at, issue_list, next_issue,
                 is_duplicate, environment, requested, consistent, examined,
                 fn_vars>>

Next == SearchRequest \/ SearchResponse \/ Scan \/ Update \/ Transition \/ Create

Spec == Init /\ [][Next]_vars

(***************************************************************************)
(* find_existing_jira_issues under the handler's scheduling: the handler   *)
(* runs on, so a search that is due is made, and the tracker answers it.   *)
(***************************************************************************)
FairSpec == Spec /\ WF_vars(SearchRequest) /\ WF_vars(SearchResponse)

(***************************************************************************)
(* The two text functions checked alone, on inputs of their own.           *)
(***************************************************************************)
\* The most lines of a text given to the throw-location function.
MaxLines == 2

\* The most updates of one annotation in a row.
MaxUpdates == 12

\* No request is running.
Idle ==
  /\ json_data = ReportAtC
  /\ store = <<>>
  /\ page_size = 1
  /\ pc = "idle"
  /\ start_at = 0
  /\ issue_list = <<>>
  /\ next_issue = 1
  /\ is_duplicate = <<>>
  /\ environment = None
  /\ response = NoResponse
  /\ requested = [o \in 0..MaxTotal |-> 0]
  /\ consistent = TRUE
  /\ failed = NoFailure
  /\ examined = {}
  /\ writes = <<>>

\* Lines of a printed stacktrace, as the program prints them and as a
\* tracker user may have edited them.
LinePool ==
  { <<"C","a","u","s","e","d"," ","b","y",":"," ","m">>,
    <<"\t","a","t"," ","c",".","m","(","f",":","1",")">>,
    <<" "," ","C","A","U","S","E","D","\t","-"," ","B","Y"," ","x">>,
    <<"b","e","c","a","u","s","e","d"," ","b","y">>,
    <<"n","o"," ","c","o","l","o","n">>,
    <<>> }

RECURSIVE TextsOfLines(_)
TextsOfLines(n) ==
  IF n = 0 THEN {<<>>}
  ELSE TextsOfLines(n - 1)
         \cup {t \o l \o <<"\n">> : t \in TextsOfLines(n - 1), l \in LinePool}
         \cup {t \o l : t \in TextsOfLines(n - 1), l \in LinePool}

\* The texts given to first_line_caused_by_from_printed_stacktrace: up to
\* MaxLines lines, and what get_stacktrace_from_message prints for reports.
ExtractInputs ==
  TextsOfLines(MaxLines)
    \cup {get_stacktrace_from_message(r) :
            r \in {ReportAtC, ReportNativeOnly, ReportWrapped}}

NotCalled == [exc |-> "not called", val |-> <<>>]

InitExtract ==
  /\ Idle
  /\ fn_input \in ExtractInputs
  /\ fn_output = NotCalled
  /\ fn_trace = <<>>

Extract ==
  /\ fn_output = NotCalled
  /\ fn_output' = first_line_caused_by_from_printed_stacktrace(fn_input)
  /\ UNCHANGED <<request_vars, fn_input, fn_trace>>

NextExtract == Extract

SpecExtract == InitExtract /\ [][NextExtract]_vars

\* Prior annotations (the issue's environment field), each with the count
\* it carries: 0 when it carries none.
Priors ==
  { [text |-> None, count |-> 0],
    [text |-> <<>>, count |-> 0],
    [text |-> <<"s","e","e","n"," ","t","w","i","c","e">>, count |-> 0],
    [text |-> <<"c","o","u","n","t"," ","4">>, count |-> 0],
    [text |-> <<"C","o","u","n","t",":","4">>, count |-> 0],
    [text |-> <<"C","o","u","n","t",":"," ","x">>, count |-> 0],
    [text |-> <<"\n","C","o","u","n","t",":"," ","4">>, count |-> 0],
    [text |-> <<"C","o","u","n","t",":"," ","4","\n","L","a","s","t",":"," ",
                "2","0","2","3","-","0","1","-","0","1">>, count |-> 4],
    [text |-> <<"C","o","u","n","t",":"," ","9","8","\n","L","a","s","t",":",
                " ","2","0","2","3","-","0","1","-","0","1">>, count |-> 98],
    [text |-> <<"s","e","e","n",";"," ","C","O","U","N","T",":","\t"," ",
                "7","x">>, count |-> 7] }

InitCount ==
  /\ Idle
  /\ fn_input \in Priors
  /\ fn_output = fn_input.text
  /\ fn_trace = <<>>

\* One more update of the issue: the annotation computed from the one the
\* issue holds replaces it.
Recount ==
  /\ Len(fn_trace) < MaxUpdates
  /\ \E now \in Timestamps :
       fn_output' = calculate_issue_occurrence_count(fn_output, now)
  /\ fn_trace' = Append(fn_trace, occurrence_count(fn_output))
  /\ UNCHANGED <<request_vars, fn_input>>

NextCount == Recount

SpecCount == InitCount /\ [][NextCount]_vars

(***************************************************************************)
(* Properties.                                                             *)
(***************************************************************************)
\* The search has returned its list to determine_if_duplicate.
Retrieved == pc \notin {"search", "searching", "idle"} /\ failed.op # "search"

\* The offsets a tracker with t issues and pages of m is asked for.
PageOffsets(t, m) == {0} \cup {o \in 0..(t - 1) : o % m = 0}

\* C1: when the tracker answers every search page with 200 and with its own
\* page size and total, the list returned holds the issues in the tracker's
\* order, the page at a lower offset before the page at a higher one.
C1_AscendingOffsetOrder ==
  (Retrieved /\ consistent) => issue_list = store

\* C2: with such a tracker, one request is made at offset 0 and at each
\* multiple of the page size below the total, none anywhere else, and the
\* list returned holds every issue of the tracker once: as many as the total.
C2_EachPageOnce ==
  (Retrieved /\ consistent) =>
    /\ \A o \in DOMAIN requested :
         requested[o] = IF o \in PageOffsets(Len(store), page_size)
                        THEN 1 ELSE 0
    /\ Len(issue_list) = Len(store)
    /\ \A k \in 1..Len(store) :
         Cardinality({i \in 1..Len(issue_list) : issue_list[i] = store[k]}) = 1

\* Three single-issue pages were requested, at offsets 0, 1 and 2, from a consistent tracker.
C2_Witness ==
  /\ Retrieved /\ consistent
  /\ Len(store) = 3 /\ page_size = 1
  /\ requested[0] = 1 /\ requested[1] = 1 /\ requested[2] = 1

\* C3: a search answered with another status than 200, at the first page or
\* a later one, ends the request in the error that carries that status; no
\* issue of the pages fetched before is returned or compared, no decision
\* is made, and no create, update or transition call is made.
C3_SearchFailureAborts ==
  failed.op = "search" =>
    /\ failed.status_code # 200
    /\ pc = "done"
    /\ response = ErrorResponse("Could not query Jira issues",
                                failed.status_code)
    /\ issue_list = <<>>
    /\ examined = {}
    /\ is_duplicate = <<>>
    /\ writes = <<>>

\* The second page failed after the first had brought an issue.
C3_Witness ==
  /\ failed.op = "search"
  /\ start_at > 0
  /\ requested[0] = 1 /\ requested[start_at] = 1
  /\ Len(store) > 0

\* The throw location of section 4.2: the line after the last "caused by"
\* line up to its first colon, and the empty text where there is no such
\* line.
ThrowLocation(text) ==
  IF LastCausedBy(splitlines(text)) + 1 > Len(splitlines(text)) THEN <<>>
  ELSE BeforeColon(splitlines(text)[LastCausedBy(splitlines(text)) + 1])

\* The similarity test of section 4.3 on the report and issue i of the list.
Similar(i) ==
  /\ Exceeds(ratio(get_stacktrace_from_message(json_data),
                   get_stacktrace_from_issue(issue_list[i])), 95, 100)
  /\ ThrowLocation(get_stacktrace_from_message(json_data))
       = ThrowLocation(get_stacktrace_from_issue(issue_list[i]))

\* determine_if_duplicate is over: it returned or an exception left it.
ScanOver == Retrieved /\ pc # "scan"

\* C4: determine_if_duplicate selects the earliest issue of the list that
\* passes the similarity test, with its key, status and environment, and
\* examines none after it; it answers New when none passes.
C4_EarliestSimilarIssue ==
  ScanOver =>
    IF \E i \in 1..Len(issue_list) : Similar(i)
    THEN \E i \in 1..Len(issue_list) :
           /\ Similar(i)
           /\ \A k \in 1..(i - 1) : ~Similar(k)
           /\ is_duplicate = Duplicate(issue_list[i])
           /\ examined = 1..i
    ELSE is_duplicate = New

\* C5: an issue that was compared is taken for the duplicate exactly if the
\* ratio of the two stacktraces exceeds 0.95 and their throw locations are
\* the same text; one whose quick ratio does not exceed 0.6 is never taken.
C5_AcceptedIffSimilar ==
  \A i \in examined :
    /\ (is_duplicate = Duplicate(issue_list[i])) <=> Similar(i)
    /\ ~Exceeds(real_quick_ratio(get_stacktrace_from_message(json_data),
                                 get_stacktrace_from_issue(issue_list[i])),
                6, 10)
         => is_duplicate # Duplicate(issue_list[i])

\* C6: first_line_caused_by_from_printed_stacktrace raises no error: it
\* returns the throw location of its text, the empty text when no line
\* follows the last "caused by" line.
C6_NeverRaises ==
  fn_output # NotCalled =>
    /\ fn_output.exc = ""
    /\ fn_output.val = ThrowLocation(fn_input)

\* C7: update i of an annotation yields the count the annotation carried at
\* first plus i, so 1, 2, ... from an absent or unreadable annotation and 5
\* from "Count: 4 ...", and writes it as 'Count: n', a line break, 'Last: '
\* and the time.
C7_CountsByOne ==
  /\ \A i \in 1..Len(fn_trace) : fn_trace[i] = fn_input.count + i
  /\ fn_trace # <<>> =>
       \E now \in Timestamps :
         fn_output = <<"C","o","u","n","t",":"," ">>
                       \o FormatInt(fn_input.count + Len(fn_trace))
                       \o <<"\n","L","a","s","t",":"," ">> \o now

\* The annotation "Count: 4 ..." was updated to 5 and on to 10.
C7_Witness ==
  /\ fn_input.count = 4
  /\ Len(fn_trace) >= 6
  /\ fn_trace[1] = 5 /\ fn_trace[6] = 10

\* C8: a tracker call answered with a failure status ends the request in
\* the error answer (500), and no call follows it.
C8_FailuresAbort ==
  failed.op # "" => pc = "done" /\ response.code = 500

\* C9: find_existing_jira_issues comes to an end, whatever the tracker
\* answers.
C9_RetrievalEnds == <>(pc \notin {"search", "searching"})

\* One of the texts "closed" and "resolved", in any case of letters.
ClosedOrResolved(status) ==
  Lower(status) \in {<<"c","l","o","s","e","d">>,
                     <<"r","e","s","o","l","v","e","d">>}

\* C10: no write is made before the search has returned and the decision
\* is made; then one write is made, an update of the matching issue for a
\* duplicate and a create otherwise; and a transition is made only for a
\* duplicate whose status is closed or resolved, after its update was
\* answered with 204.
C10_WriteOrder ==
  /\ writes # <<>> => Retrieved /\ pc # "scan" /\ is_duplicate # <<>>
  /\ (pc = "done" /\ is_duplicate # <<>>) => writes # <<>>
  /\ \A i \in 1..Len(writes) :
       /\ writes[i].op = "update" =>
            /\ i = 1
            /\ is_duplicate[1]
            /\ writes[i].key = is_duplicate[2]
       /\ writes[i].op = "create" =>
            /\ i = 1 /\ Len(writes) = 1
            /\ is_duplicate = New
       /\ writes[i].op = "transition" =>
            /\ i = 2
            /\ writes[1].op = "update" /\ writes[1].status_code = 204
            /\ is_duplicate[1]
            /\ writes[i].key = is_duplicate[2]
            /\ ClosedOrResolved(is_duplicate[3])

\* A closed duplicate was updated and then reopened.
C10_Witness ==
  /\ pc = "done"
  /\ Len(writes) = 2
  /\ writes[2].op = "transition"
  /\ response.code = 200

====
